---- MODULE Spec2Model ----
(***************************************************************************)
(* DataRecorder (datarecorder.py): one recorder object, its dataset        *)
(* self.samples, and record_loop / record_one_iteration /                  *)
(* _record_eeg_sample / _padtrim_sample stepped through statement by       *)
(* statement.  Time is counted in ticks of 1/TicksPerSecond seconds.       *)
(***************************************************************************)
EXTENDS Integers, Sequences, FiniteSets, TLC

\* ---------------------------------------------------------------- bounds
MaxCalls == 2
MaxIter == 2
MaxRaw == 2
MaxFreq == 2
MaxDuration == 2
TicksPerSecond == 2
NumChannels == 2
SampleLevels == 2

VARIABLES
    sampling_frequency,   \* self.sampling_frequency
    samples,              \* self.samples: field name -> list
    pc,                   \* position inside record_loop ("idle": no call, "done": call ended)
    stream,               \* record_loop's stream argument / local
    iterations,           \* record_loop's iterations argument
    duration,             \* record_loop's duration argument, in ticks
    additional_variables, \* record_loop's additional_variables argument (ordered dict)
    list_variables,       \* local of record_loop
    object_variables,     \* local of record_loop
    i,                    \* loop index of record_loop
    raw,                  \* local list `samples` of _record_eeg_sample
    arr,                  \* the ndarray returned by _record_eeg_sample
    sample,               \* record_loop's local sample: what record_one_iteration returned
    elapsed,              \* dt.datetime.now() - start_time, in ticks
    hooks,                \* history: hooks invoked by the current call
    steps,                \* history: steps of the current trial
    pulled,               \* history: samples pulled from the stream by the current call
    inlets,               \* history: inlets opened by the current call
    pre,                  \* history: self.samples when the current call began
    outcome,              \* history: how the current call ended
    calls,                \* history: number of record_loop calls made
    completed             \* history: trials whose capture and normalize completed

vars == <<sampling_frequency, samples, pc, stream, iterations, duration,
          additional_variables, list_variables, object_variables, i, raw, arr, sample,
          elapsed, hooks, steps, pulled, inlets, pre,
          outcome, calls, completed>>

\* ------------------------------------------------------- python values
Num(n) == [k |-> "num", n |-> n]
Str(cs) == [k |-> "str", c |-> cs]
List(es) == [k |-> "list", e |-> es]

\* isinstance(v, Iterable): str and list are, a number is not
IsIterable(v) == v.k \in {"str", "list"}

\* len(v)
PyLen(v) == IF v.k = "str" THEN Len(v.c) ELSE Len(v.e)

\* the elements list.extend(v) appends: a str yields its characters
PyElements(v) == IF v.k = "str" THEN [j \in 1..Len(v.c) |-> Str(<<v.c[j]>>)] ELSE v.e

\* v * n for a number v
PyMul(v, n) == Num(v.n * n)

\* additional_variables[key] of an ordered dict held as <<key, value>> pairs
Lookup(md, key) == (CHOOSE j \in 1..Len(md) : md[j][1] = key)

DictKeys(md) == [j \in 1..Len(md) |-> md[j][1]]

Min(a, b) == IF a < b THEN a ELSE b
Max(a, b) == IF a > b THEN a ELSE b

\* ---------------------------------------------------------- __init__
\* self.samples = {'recordings': []} and one empty list per additional variable
InitSamples(names) == [f \in {"recordings"} \cup names |-> <<>>]

\* ------------------------------------------- record_loop: validation
\* variant: the assert compares with < instead of ==
ValidationRaisesShortOnly(md, n) ==
    \E j \in 1..Len(md) : IsIterable(md[j][2]) /\ PyLen(md[j][2]) < n

\* the assert of line 97 fails for some key
ValidationRaises(md, n) ==
    \E j \in 1..Len(md) : IsIterable(md[j][2]) /\ PyLen(md[j][2]) # n

\* list_variables after the loop of lines 95-100
ListVariables(md) ==
    DictKeys(SelectSeq(md, LAMBDA p : IsIterable(p[2])))

\* object_variables after the loop of lines 95-100
ObjectVariables(md) ==
    DictKeys(SelectSeq(md, LAMBDA p : ~IsIterable(p[2])))

\* ------------------------------------------- record_loop: extension
\* variant: the supplied elements are appended in reverse order
ListExtensionReversed(md, key) ==
    LET es == PyElements(md[Lookup(md, key)][2])
    IN [j \in 1..Len(es) |-> es[Len(es) + 1 - j]]

\* what line 113 passes to extend for a key of list_variables
ListExtension(md, key) == PyElements(md[Lookup(md, key)][2])

\* what line 116 passes to extend for a key of object_variables:
\* a one-element list holding value * iterations
ObjectExtension(md, key, n) == <<PyMul(md[Lookup(md, key)][2], n)>>

\* lines 112-116 as the list of (key, elements) extensions, in execution order
Extensions(md, lv, ov, n) ==
    [j \in 1..Len(lv) |-> <<lv[j], ListExtension(md, lv[j])>>]
    \o [j \in 1..Len(ov) |-> <<ov[j], ObjectExtension(md, ov[j], n)>>]

\* self.samples[key].extend(...) one after the other; self.samples[key] of a
\* key that is no field raises KeyError and ends the call there
RECURSIVE ApplyExtensions(_, _)
ApplyExtensions(ds, ops) ==
    IF ops = <<>> THEN [samples |-> ds, raised |-> FALSE]
    ELSE IF Head(ops)[1] \notin DOMAIN ds THEN [samples |-> ds, raised |-> TRUE]
    ELSE ApplyExtensions([ds EXCEPT ![Head(ops)[1]] = @ \o Head(ops)[2]], Tail(ops))

\* ------------------------------------------------ _record_eeg_sample
Arr(shape, data) == [k |-> "arr", shape |-> shape, data |-> data]

\* the vector inlet.pull_sample() returns for the sample the stream delivers
\* after pos samples of this call
StreamSample(pos) == [c \in 1..NumChannels |-> 1 + ((pos + c) % SampleLevels)]

\* np.array(samples): a list of T vectors is [T, C]; the empty list is shape (0,)
NpArray(lst) ==
    IF lst = <<>> THEN Arr(<<0>>, <<>>)
    ELSE Arr(<<Len(lst), Len(lst[1])>>, lst)

\* samples.T: swaps the axes of a 2-D array, leaves a 1-D array as it is
Transpose(a) ==
    IF Len(a.shape) = 2
    THEN Arr(<<a.shape[2], a.shape[1]>>,
             [c \in 1..a.shape[2] |-> [t \in 1..a.shape[1] |-> a.data[t][c]]])
    ELSE a

\* lines 149-151 (ascontiguousarray changes the memory layout only)
CaptureResult(lst) == Transpose(NpArray(lst))

\* --------------------------------------------------- _padtrim_sample
\* C, T = samples.shape raises ValueError unless the array is 2-D
PadTrimRaises(a) == Len(a.shape) # 2

\* variant: the product is rounded to the nearest integer instead of truncated
TargetLengthRounded(sf, d) ==
    (2 * sf * d + TicksPerSecond) \div (2 * TicksPerSecond)

\* int(sampling_frequency * duration), duration given in ticks
TargetLength(sf, d) == (sf * d) \div TicksPerSecond

Zeros(n) == [j \in 1..n |-> 0]

\* row[:n]
SliceTo(row, n) ==
    IF n >= 0 THEN SubSeq(row, 1, Min(n, Len(row)))
    ELSE SubSeq(row, 1, Max(Len(row) + n, 0))

\* variant: the trim keeps the last target columns instead of the first
PadTrimToKeepTail(a, target) ==
    IF a.shape[2] < target
    THEN Arr(<<a.shape[1], target>>,
             [c \in 1..a.shape[1] |-> a.data[c] \o Zeros(target - a.shape[2])])
    ELSE Arr(<<a.shape[1], target>>,
             [c \in 1..a.shape[1] |->
                SubSeq(a.data[c], a.shape[2] - target + 1, a.shape[2])])

\* variant: pads short buffers but never trims long ones
PadTrimToPadOnly(a, target) ==
    IF a.shape[2] < target
    THEN Arr(<<a.shape[1], target>>,
             [c \in 1..a.shape[1] |-> a.data[c] \o Zeros(target - a.shape[2])])
    ELSE a

\* variant: the pad width is target_length instead of target_length - T
PadTrimToPadFull(a, target) ==
    IF a.shape[2] < target
    THEN Arr(<<a.shape[1], a.shape[2] + target>>,
             [c \in 1..a.shape[1] |-> a.data[c] \o Zeros(target)])
    ELSE Arr(<<a.shape[1], Len(SliceTo(Zeros(a.shape[2]), target))>>,
             [c \in 1..a.shape[1] |-> SliceTo(a.data[c], target)])

\* lines 174-179 for a given target_length
PadTrimTo(a, target) ==
    IF a.shape[2] < target
    THEN Arr(<<a.shape[1], target>>,
             [c \in 1..a.shape[1] |-> a.data[c] \o Zeros(target - a.shape[2])])
    ELSE Arr(<<a.shape[1], Len(SliceTo(Zeros(a.shape[2]), target))>>,
             [c \in 1..a.shape[1] |-> SliceTo(a.data[c], target)])

PadTrimSample(a, sf, d) == PadTrimTo(a, TargetLength(sf, d))

\* ------------------------------------------------------------ inputs
AdditionalNames == {"label", "condition"}
MetaKeys == {"recordings"} \cup AdditionalNames

\* a per-trial list of k labels
ListOf(k) == List([j \in 1..k |-> Num(10 + j)])

\* metadata values: a number, a text label, per-trial lists
MetaValues == {Num(3), Str(<<"o", "k">>)} \cup {ListOf(k) : k \in 1..MaxIter}

\* values of the second entry of the two-entry dicts
PairValues == {v \in MetaValues : v.k # "str"}

\* ordered dicts: empty, any single entry, a label list followed by a condition
MetaDicts ==
    {<<>>}
    \cup {<<<<key, v>>>> : key \in MetaKeys, v \in MetaValues}
    \cup {<<<<"label", ListOf(k)>>, <<"condition", v>>>> :
            k \in 1..MaxIter, v \in PairValues}

\* the additional_variables lists given to __init__
DeclaredChoices == {{"label"}}

NoArr == Arr(<<>>, <<>>)

\* -------------------------------------------------------------- Init
Init ==
    /\ sampling_frequency \in 1..MaxFreq
    /\ \E names \in DeclaredChoices : samples = InitSamples(names)
    /\ pc = "idle"
    /\ stream = "none"
    /\ iterations = 0
    /\ duration = 1
    /\ additional_variables = <<>>
    /\ list_variables = <<>>
    /\ object_variables = <<>>
    /\ i = 0
    /\ raw = <<>>
    /\ arr = NoArr
    /\ sample = NoArr
    /\ elapsed = 0
    /\ hooks = <<>>
    /\ steps = <<>>
    /\ pulled = 0
    /\ inlets = 0
    /\ pre = samples
    /\ outcome = "none"
    /\ calls = 0
    /\ completed = 0

\* ----------------------------------------------------------- actions
\* a call of record_loop(stream, iterations, duration, rest_duration, additional_variables)
RecordLoop(s, n, d, md) ==
    /\ pc = "idle"
    /\ calls < MaxCalls
    /\ stream' = s
    /\ iterations' = n
    /\ duration' = d
    /\ additional_variables' = md
    /\ pc' = IF s = "none" THEN "resolve" ELSE "validate"
    /\ list_variables' = <<>>
    /\ object_variables' = <<>>
    /\ i' = 0
    /\ raw' = <<>>
    /\ arr' = NoArr
    /\ sample' = NoArr
    /\ elapsed' = 0
    /\ hooks' = <<>>
    /\ steps' = <<>>
    /\ pulled' = 0
    /\ inlets' = 0
    /\ pre' = samples
    /\ outcome' = "running"
    /\ calls' = calls + 1
    /\ UNCHANGED <<sampling_frequency, samples, completed>>

\* variant: the return of line 87 is missing
InitiateStreamNoReturn(found) ==
    /\ pc = "resolve"
    /\ stream' = IF found THEN "handle" ELSE stream
    /\ pc' = "validate"
    /\ UNCHANGED <<sampling_frequency, samples, iterations, duration,
                   additional_variables, list_variables, object_variables, i, raw,
                   arr, sample, elapsed, hooks, steps, pulled, inlets, pre,
                   outcome, calls, completed>>

\* lines 83-87 with _initiate_stream: one resolve_byprop, found or not
InitiateStream(found) ==
    /\ pc = "resolve"
    /\ IF found
       THEN /\ stream' = "handle"
            /\ pc' = "validate"
            /\ outcome' = outcome
       ELSE /\ stream' = stream
            /\ pc' = "done"
            /\ outcome' = "no_stream"
    /\ UNCHANGED <<sampling_frequency, samples, iterations, duration,
                   additional_variables, list_variables, object_variables, i, raw,
                   arr, sample, elapsed, hooks, steps, pulled, inlets, pre,
                   calls, completed>>

\* lines 91-100
Validate ==
    /\ pc = "validate"
    /\ IF ValidationRaises(additional_variables, iterations)
       THEN /\ pc' = "done"
            /\ outcome' = "assertion"
            /\ UNCHANGED <<list_variables, object_variables>>
       ELSE /\ pc' = "signal_start"
            /\ list_variables' = ListVariables(additional_variables)
            /\ object_variables' = ObjectVariables(additional_variables)
            /\ outcome' = outcome
    /\ UNCHANGED <<sampling_frequency, samples, stream, iterations, duration,
                   additional_variables, i, raw, arr, sample, elapsed, hooks,
                   steps, pulled, inlets, pre, calls, completed>>

\* variant: the loop runs one round too many
LoopNextOffByOne(j, n) == IF j <= n THEN "rest" ELSE "signal_end"

\* where the for loop of line 106 goes with j trials done
LoopNext(j, n) == IF j < n THEN "rest" ELSE "signal_end"

\* line 104, then the loop head
SignalStartRecording ==
    /\ pc = "signal_start"
    /\ hooks' = Append(hooks, "session_start")
    /\ i' = 0
    /\ pc' = LoopNext(0, iterations)
    /\ UNCHANGED <<sampling_frequency, samples, stream, iterations, duration,
                   additional_variables, list_variables, object_variables, raw, arr, sample,
                   elapsed, steps, pulled, inlets, pre,
                   outcome, calls, completed>>

\* line 53: time.sleep(rest_duration) returns
Sleep ==
    /\ pc = "rest"
    /\ steps' = <<"rest">>
    /\ pc' = "present"
    /\ UNCHANGED <<sampling_frequency, samples, stream, iterations, duration,
                   additional_variables, list_variables, object_variables, i, raw,
                   arr, sample, elapsed, hooks, pulled, inlets, pre,
                   outcome, calls, completed>>

\* line 56
PresentStimuli ==
    /\ pc = "present"
    /\ hooks' = Append(hooks, "stimulus_start")
    /\ steps' = Append(steps, "stimulus_start")
    /\ pc' = "open_inlet"
    /\ UNCHANGED <<sampling_frequency, samples, stream, iterations, duration,
                   additional_variables, list_variables, object_variables, i, raw,
                   arr, sample, elapsed, pulled, inlets, pre,
                   outcome, calls, completed>>

\* lines 138-142: a new StreamInlet, start_time = now, samples = []
OpenInlet ==
    /\ pc = "open_inlet"
    /\ inlets' = inlets + 1
    /\ raw' = <<>>
    /\ elapsed' = 0
    /\ steps' = Append(steps, "capture")
    /\ pc' = "capture"
    /\ UNCHANGED <<sampling_frequency, samples, stream, iterations, duration,
                   additional_variables, list_variables, object_variables, i, arr, sample,
                   hooks, pulled, pre, outcome, calls,
                   completed>>

\* the wall clock moves on during a capture
ClockAdvance ==
    /\ pc \in {"capture", "pull"}
    /\ elapsed < duration
    /\ elapsed' = elapsed + 1
    /\ UNCHANGED <<sampling_frequency, samples, pc, stream, iterations, duration,
                   additional_variables, list_variables, object_variables, i, raw,
                   arr, sample, hooks, steps, pulled, inlets, pre,
                   outcome, calls, completed>>

\* line 145 true: the loop body is entered
LoopEnter ==
    /\ pc = "capture"
    /\ elapsed < duration
    /\ Len(raw) < MaxRaw
    /\ pc' = "pull"
    /\ UNCHANGED <<sampling_frequency, samples, stream, iterations, duration,
                   additional_variables, list_variables, object_variables, i, raw,
                   arr, sample, elapsed, hooks, steps, pulled, inlets,
                   pre, outcome, calls, completed>>

\* lines 146-147: pull_sample returns a sample, which is appended
PullSample ==
    /\ pc = "pull"
    /\ raw' = Append(raw, StreamSample(pulled))
    /\ pulled' = pulled + 1
    /\ pc' = "capture"
    /\ UNCHANGED <<sampling_frequency, samples, stream, iterations, duration,
                   additional_variables, list_variables, object_variables, i, arr, sample,
                   elapsed, hooks, steps, inlets, pre, outcome, calls,
                   completed>>

\* line 146: pull_sample raises (the stream is lost); nothing catches it
PullRaises ==
    /\ pc = "pull"
    /\ pc' = "done"
    /\ outcome' = "fault"
    /\ UNCHANGED <<sampling_frequency, samples, stream, iterations, duration,
                   additional_variables, list_variables, object_variables, i, raw,
                   arr, sample, elapsed, hooks, steps, pulled, inlets,
                   pre, calls, completed>>

\* line 145 false, lines 149-152
CaptureReturn ==
    /\ pc = "capture"
    /\ ~(elapsed < duration)
    /\ arr' = CaptureResult(raw)
    /\ pc' = "end_stimuli"
    /\ UNCHANGED <<sample, sampling_frequency, samples, stream, iterations, duration,
                   additional_variables, list_variables, object_variables, i, raw,
                   elapsed, hooks, steps, pulled, inlets, pre,
                   outcome, calls, completed>>

\* variant: the end_stimuli call of line 62 is missing
EndStimuliOmitted ==
    /\ pc = "end_stimuli"
    /\ pc' = "padtrim"
    /\ UNCHANGED <<sampling_frequency, samples, stream, iterations, duration,
                   additional_variables, list_variables, object_variables, i, raw,
                   arr, sample, elapsed, hooks, steps, pulled, inlets, pre,
                   outcome, calls, completed>>

\* line 62
EndStimuli ==
    /\ pc = "end_stimuli"
    /\ hooks' = Append(hooks, "stimulus_end")
    /\ steps' = Append(steps, "stimulus_end")
    /\ pc' = "padtrim"
    /\ UNCHANGED <<sampling_frequency, samples, stream, iterations, duration,
                   additional_variables, list_variables, object_variables, i, raw,
                   arr, sample, elapsed, pulled, inlets, pre,
                   outcome, calls, completed>>

\* variant: every field is appended to once per trial
AppendRecordingAllFields(ds, window) == [f \in DOMAIN ds |-> Append(ds[f], window)]

\* line 108: self.samples['recordings'].append(sample)
AppendRecording(ds, window) == [ds EXCEPT !["recordings"] = Append(@, window)]

\* lines 65-66 and 108: _padtrim_sample, the return, the append, the next
\* loop round; a ValueError of _padtrim_sample ends the call
PadTrimAndAppend ==
    /\ pc = "padtrim"
    /\ steps' = Append(steps, "normalize")
    /\ IF PadTrimRaises(arr)
       THEN /\ pc' = "done"
            /\ outcome' = "fault"
            /\ UNCHANGED <<samples, sample, i, completed>>
       ELSE /\ sample' = PadTrimSample(arr, sampling_frequency, duration)
            /\ samples' = AppendRecording(samples, sample')
            /\ completed' = completed + 1
            /\ i' = i + 1
            /\ pc' = LoopNext(i + 1, iterations)
            /\ outcome' = outcome
    /\ UNCHANGED <<sampling_frequency, stream, iterations, duration,
                   additional_variables, list_variables, object_variables, raw, arr,
                   elapsed, hooks, pulled, inlets, pre, calls>>

\* line 109
SignalEndRecording ==
    /\ pc = "signal_end"
    /\ hooks' = Append(hooks, "session_end")
    /\ pc' = "extend"
    /\ UNCHANGED <<sampling_frequency, samples, stream, iterations, duration,
                   additional_variables, list_variables, object_variables, i, raw,
                   arr, sample, elapsed, steps, pulled, inlets, pre,
                   outcome, calls, completed>>

\* lines 112-116, then the return
ExtendSamples ==
    /\ pc = "extend"
    /\ LET res == ApplyExtensions(samples,
                      Extensions(additional_variables, list_variables,
                                 object_variables, iterations))
       IN /\ samples' = res.samples
          /\ outcome' = IF res.raised THEN "key_error" ELSE "ok"
    /\ pc' = "done"
    /\ UNCHANGED <<sampling_frequency, stream, iterations, duration,
                   additional_variables, list_variables, object_variables, i, raw,
                   arr, sample, elapsed, hooks, steps, pulled, inlets,
                   pre, calls, completed>>

\* the call is over (returned or raised): its frame is gone
Return ==
    /\ pc = "done"
    /\ pc' = "idle"
    /\ stream' = "none"
    /\ iterations' = 0
    /\ duration' = 1
    /\ additional_variables' = <<>>
    /\ list_variables' = <<>>
    /\ object_variables' = <<>>
    /\ i' = 0
    /\ raw' = <<>>
    /\ arr' = NoArr
    /\ sample' = NoArr
    /\ elapsed' = 0
    /\ hooks' = <<>>
    /\ steps' = <<>>
    /\ pulled' = 0
    /\ inlets' = 0
    /\ pre' = samples
    /\ outcome' = "none"
    /\ UNCHANGED <<sampling_frequency, samples, calls, completed>>

Next ==
    \/ \E s \in {"none", "handle"}, n \in 0..MaxIter, d \in 1..MaxDuration,
          md \in MetaDicts : RecordLoop(s, n, d, md)
    \/ \E found \in BOOLEAN : InitiateStream(found)
    \/ Validate
    \/ SignalStartRecording
    \/ Sleep
    \/ PresentStimuli
    \/ OpenInlet
    \/ ClockAdvance
    \/ LoopEnter
    \/ PullSample
    \/ PullRaises
    \/ CaptureReturn
    \/ EndStimuli
    \/ PadTrimAndAppend
    \/ SignalEndRecording
    \/ ExtendSamples
    \/ Return

Spec == Init /\ [][Next]_vars

\* ------------------------------------- _padtrim_sample called on its own
\* [C, T] buffers, zeros among their values
RawBuffers ==
    {Arr(<<c, t>>, [row \in 1..c |-> [col \in 1..t |->
                        (ph + row + col) % (SampleLevels + 1)]]) :
        c \in 1..NumChannels, t \in 0..(MaxRaw + MaxRaw), ph \in 0..SampleLevels}

InitPadTrim ==
    /\ sampling_frequency \in 1..MaxFreq
    /\ samples = InitSamples({})
    /\ pc = "padtrim"
    /\ stream = "handle"
    /\ iterations = 1
    /\ duration \in 0..(MaxDuration + MaxDuration)
    /\ additional_variables = <<>>
    /\ list_variables = <<>>
    /\ object_variables = <<>>
    /\ i = 0
    /\ raw = <<>>
    /\ arr \in RawBuffers
    /\ sample = NoArr
    /\ elapsed = 0
    /\ hooks = <<>>
    /\ steps = <<>>
    /\ pulled = 0
    /\ inlets = 0
    /\ pre = samples
    /\ outcome = "running"
    /\ calls = 0
    /\ completed = 0

\* sample = self._padtrim_sample(sample, sampling_frequency, duration)
PadTrimCall ==
    /\ pc = "padtrim"
    /\ ~PadTrimRaises(arr)
    /\ sample' = PadTrimSample(arr, sampling_frequency, duration)
    /\ pc' = "padtrim_done"
    /\ UNCHANGED <<sampling_frequency, samples, stream, iterations, duration,
                   additional_variables, list_variables, object_variables, i, raw,
                   arr, elapsed, hooks, steps, pulled, inlets, pre, outcome, calls,
                   completed>>

\* _padtrim_sample called again on what it returned
PadTrimAgain ==
    /\ pc = "padtrim_done"
    /\ ~PadTrimRaises(sample)
    /\ arr' = sample
    /\ sample' = PadTrimSample(sample, sampling_frequency, duration)
    /\ pc' = "padtrim_twice"
    /\ UNCHANGED <<sampling_frequency, samples, stream, iterations, duration,
                   additional_variables, list_variables, object_variables, i, raw,
                   elapsed, hooks, steps, pulled, inlets, pre, outcome, calls,
                   completed>>

NextPadTrim ==
    \/ PadTrimCall
    \/ PadTrimAgain

SpecPadTrim == InitPadTrim /\ [][NextPadTrim]_vars

\* ============================================================ claims
MdKeys == {additional_variables[j][1] : j \in 1..Len(additional_variables)}
Copies(v, n) == [j \in 1..n |-> v]
IsPrefix(s, t) == Len(s) <= Len(t) /\ s = SubSeq(t, 1, Len(s))
Emitted(h) == \E j \in 1..Len(hooks) : hooks[j] = h
FiveSteps == <<"rest", "stimulus_start", "capture", "stimulus_end", "normalize">>

\* a list-valued metadata field whose length differs from iterations
BadList ==
    \E j \in 1..Len(additional_variables) :
        /\ additional_variables[j][2].k = "list"
        /\ Len(additional_variables[j][2].e) # iterations

\* C1: after a call of iterations >= 1 that completes normally, on a recorder whose fields all had
\* the cumulative trial count as length before it and whose additional fields
\* are all supplied as metadata, every field has the cumulative trial count as
\* length (on a fresh recorder: iterations).
C1_EveryFieldCumulative ==
    ( /\ pc = "done"
      /\ outcome = "ok"
      /\ iterations >= 1
      /\ "recordings" \notin MdKeys
      /\ (DOMAIN samples) \ {"recordings"} \subseteq MdKeys
      /\ \A f \in DOMAIN pre : Len(pre[f]) = completed - iterations )
    => \A f \in DOMAIN samples : Len(samples[f]) = completed

\* C2: a normally completing call with iterations = n >= 1 extends the field of
\* every scalar-valued metadata key by exactly n copies of the scalar.
C2_ScalarRepeated ==
    (pc = "done" /\ outcome = "ok" /\ iterations >= 1)
    => \A j \in 1..Len(additional_variables) :
         LET key == additional_variables[j][1]
             v == additional_variables[j][2]
         IN (v.k = "num" /\ key # "recordings")
            => samples[key] = pre[key] \o Copies(v, iterations)

\* C3: a text label is a scalar: the call is not rejected by the metadata
\* validation, and when it completes normally all n trials ran and the field
\* was extended by n copies of the whole label.
C3_LabelIsScalar ==
    (pc = "done" /\ iterations >= 1)
    => \A j \in 1..Len(additional_variables) :
         LET key == additional_variables[j][1]
             v == additional_variables[j][2]
         IN (v.k = "str" /\ key # "recordings")
            => /\ outcome # "assertion"
               /\ outcome = "ok"
                  => /\ i = iterations
                     /\ samples[key] = pre[key] \o Copies(v, iterations)

\* C4: a call given a list-valued metadata field of length # iterations never
\* invokes a hook, opens an inlet, pulls a sample or changes the dataset, and
\* once a stream is bound it ends with the validation failure.
C4_MismatchAbortsEarly ==
    (pc # "idle" /\ BadList)
    => /\ hooks = <<>>
       /\ pulled = 0
       /\ inlets = 0
       /\ i = 0
       /\ samples = pre
       /\ (pc = "done" /\ stream = "handle") => outcome = "assertion"

C4_Witness ==
    /\ pc = "done"
    /\ outcome = "assertion"
    /\ BadList
    /\ Len(additional_variables) = 2
    /\ additional_variables[1][2].k = "list"
    /\ Len(additional_variables[1][2].e) = iterations
    /\ Len(pre["recordings"]) > 0

\* a call that ended with its local stream still None: no stream was given
\* and discovery found none
AbsentOutcome ==
    (pc = "done" /\ stream = "none")
    => /\ outcome = "no_stream"
       /\ hooks = <<>>
       /\ pulled = 0
       /\ inlets = 0
       /\ i = 0
       /\ samples = pre

\* C5: without a stream handle and with no stream discovered, the call returns
\* normally having invoked no hook, run no trial and left the dataset as it
\* was; discovery is attempted only on entry to the call, once.
C5_AbsentStream ==
    /\ []AbsentOutcome
    /\ [][pc' = "resolve" => pc = "idle"]_vars

C5_Witness ==
    /\ pc = "done"
    /\ stream = "none"
    /\ outcome = "no_stream"
    /\ calls = MaxCalls
    /\ Len(pre["recordings"]) > 0
    /\ additional_variables # <<>>
    /\ iterations > 0

\* C6: the steps of a trial are a prefix of rest, stimulus-start, capture,
\* stimulus-end, normalize; a trial completes only with all five done, a new
\* trial begins only after that; the stimulus hooks are invoked at steps two
\* and four; a sample is pulled only between the capture's start and the
\* stimulus-end hook.
C6_TrialStepOrder ==
    /\ [] IsPrefix(steps, FiveSteps)
    /\ [][ /\ (pulled' > pulled)
              => (steps = SubSeq(FiveSteps, 1, 3) /\ steps' = steps)
           /\ (completed' # completed) => steps' = FiveSteps
           /\ (steps' = <<"rest">> /\ steps # steps')
              => steps \in {<<>>, FiveSteps}
           /\ (Len(hooks') > Len(hooks) /\ hooks'[Len(hooks')] = "stimulus_start")
              => steps' = SubSeq(FiveSteps, 1, 2)
           /\ (Len(hooks') > Len(hooks) /\ hooks'[Len(hooks')] = "stimulus_end")
              => steps' = SubSeq(FiveSteps, 1, 4)
         ]_vars

C6_Witness ==
    /\ steps = FiveSteps
    /\ i = 2
    /\ pulled >= 2

\* C7: a call that emitted the session-start hook has emitted the session-end
\* hook when it ends, however its trials went.
C7_SessionEndAlways ==
    (pc = "done" /\ Emitted("session_start")) => Emitted("session_end")

\* C8: in every state of a call with iterations >= 1 that began with
\* len(recordings) equal to the trials completed until then, len(recordings)
\* is the number of trials whose capture and normalize have completed,
\* whatever metadata is supplied.
C8_RecordingsCountTrials ==
    ( /\ pc # "idle"
      /\ iterations >= 1
      /\ Len(pre["recordings"]) = completed - i )
    => Len(samples["recordings"]) = completed

\* C9: for a [C, T_raw] buffer and target_length >= 0, _padtrim_sample returns
\* shape [C, target_length]: the first min(T_raw, target_length) columns are
\* the input's, in order, and the remaining columns are zero.
C9_PadTrimResult ==
    (pc = "padtrim_done")
    => LET target == TargetLength(sampling_frequency, duration)
       IN /\ sample.shape = <<arr.shape[1], target>>
          /\ Len(sample.data) = arr.shape[1]
          /\ \A c \in 1..arr.shape[1] :
               /\ Len(sample.data[c]) = target
               /\ \A t \in 1..target :
                    sample.data[c][t] = IF t <= arr.shape[2] THEN arr.data[c][t] ELSE 0

C9_Witness ==
    /\ pc = "padtrim_done"
    /\ arr.shape[1] = NumChannels
    /\ arr.shape[2] >= 2
    /\ arr.shape[2] < TargetLength(sampling_frequency, duration)
    /\ arr.data[1][1] # 0

\* C10: every window a session has appended to recordings has shape
\* [channel count, target_length of the session], whatever the captures collected.
C10_UniformShape ==
    (pc # "idle")
    => \A j \in 1..i :
         samples["recordings"][Len(pre["recordings"]) + j].shape
           = <<NumChannels, TargetLength(sampling_frequency, duration)>>

C10_Witness ==
    /\ pc = "signal_end"
    /\ i = 2
    /\ arr.shape[2] > TargetLength(sampling_frequency, duration)
    /\ samples["recordings"][Len(pre["recordings"]) + 1].data[1]
         # samples["recordings"][Len(pre["recordings"]) + 2].data[1]

\* C11: once the time elapsed since the capture's start has reached duration,
\* the capture can return with the samples collected so far, without waiting
\* for a further sample of the stream.
C11_DeadlineEndsCapture ==
    (pc \in {"capture", "pull"} /\ ~(elapsed < duration))
    => ENABLED CaptureReturn

\* C12: for positive sampling_frequency and duration the target length used by
\* _padtrim_sample is floor(sampling_frequency * duration): the largest integer
\* t with t <= sampling_frequency * duration (duration = ticks / TicksPerSecond).
C12_TargetIsFloor ==
    (pc = "padtrim_done" /\ duration > 0)
    => /\ sample.shape[2] * TicksPerSecond <= sampling_frequency * duration
       /\ sampling_frequency * duration < (sample.shape[2] + 1) * TicksPerSecond

C12_Witness ==
    /\ pc = "padtrim_done"
    /\ duration > 0
    /\ 2 * ((sampling_frequency * duration) % TicksPerSecond) >= TicksPerSecond
    /\ sample.shape[2] >= 1
    /\ sample.shape[2] * TicksPerSecond < sampling_frequency * duration

\* C13: _padtrim_sample applied to its own result returns that result, and a
\* buffer whose length is already target_length is returned as it is.
C13_PadTrimIdempotent ==
    /\ (pc = "padtrim_twice") => sample = arr
    /\ (pc = "padtrim_done"
        /\ arr.shape[2] = TargetLength(sampling_frequency, duration))
       => sample = arr

C13_Witness ==
    /\ pc = "padtrim_twice"
    /\ arr.shape = <<NumChannels, TargetLength(sampling_frequency, duration)>>
    /\ arr.shape[2] >= 2
    /\ arr.data[1][1] # 0
    /\ arr.data[1][arr.shape[2]] = 0
    /\ sample = arr

\* C14: a normally completing call extends the field of every list-valued
\* metadata key by the supplied elements, in order; when the field was as long
\* as recordings before the call (every earlier call supplied it and completed),
\* it is as long as recordings afterwards and its element at the index of the
\* window of trial t is the t-th supplied element.
C14_ListAligned ==
    (pc = "done" /\ outcome = "ok")
    => \A j \in 1..Len(additional_variables) :
         LET key == additional_variables[j][1]
             v == additional_variables[j][2]
         IN (v.k = "list" /\ key # "recordings")
            => /\ samples[key] = pre[key] \o v.e
               /\ ("recordings" \notin MdKeys
                   /\ Len(pre[key]) = Len(pre["recordings"]))
                  => /\ Len(samples[key]) = Len(samples["recordings"])
                     /\ \A t \in 1..iterations :
                          samples[key][Len(pre["recordings"]) + t] = v.e[t]

C14_Witness ==
    /\ pc = "done"
    /\ outcome = "ok"
    /\ calls = 2
    /\ iterations = 2
    /\ additional_variables # <<>>
    /\ additional_variables[1][1] = "label"
    /\ additional_variables[1][2].k = "list"
    /\ Len(pre["label"]) >= 1
    /\ Len(pre["label"]) = Len(pre["recordings"])
    /\ Len(samples["label"]) = Len(samples["recordings"])

\* C15: a call of iterations >= 1 that fails because of its metadata argument (the length assert,
\* or a key that is no field of the dataset) has emitted no hook, run no trial
\* and left the dataset as it was.
C15_MetadataAllOrNothing ==
    (pc = "done" /\ iterations >= 1 /\ outcome \in {"assertion", "key_error"})
    => /\ hooks = <<>>
       /\ i = 0
       /\ samples = pre

\* session-start, n times (stimulus-start, stimulus-end), session-end
ExpectedHooks(n) ==
    [j \in 1..(2 * n + 2) |->
        IF j = 1 THEN "session_start"
        ELSE IF j = 2 * n + 2 THEN "session_end"
        ELSE IF j % 2 = 0 THEN "stimulus_start" ELSE "stimulus_end"]

\* C16: the hooks a call has invoked are always a prefix of session-start,
\* n times (stimulus-start, stimulus-end), session-end, and exactly that trace
\* when the call completes normally (n = 0 included); a capture is in progress
\* only right after the stimulus-start hook of its own trial.
C16_HookTrace ==
    /\ (pc # "idle") => IsPrefix(hooks, ExpectedHooks(iterations))
    /\ (pc = "done" /\ outcome = "ok") => hooks = ExpectedHooks(iterations)
    /\ (pc \in {"open_inlet", "capture", "pull", "end_stimuli"})
       => /\ Len(hooks) = 2 * i + 2
          /\ hooks[Len(hooks)] = "stimulus_start"

C16_Witness ==
    /\ pc = "done"
    /\ outcome = "ok"
    /\ iterations = 2
    /\ calls = 2
    /\ Len(hooks) = 6
    /\ hooks[5] = "stimulus_end"

\* C17: a field other than recordings changes only in the step that follows the
\* session-end hook, when all iterations trials have completed, and that step
\* ends the call: while the trials run only recordings is modified, and a
\* metadata field is extended at most once per call.
C17_MetadataAfterTrials ==
    [][ (\E f \in (DOMAIN samples) \ {"recordings"} : samples'[f] # samples[f])
        => /\ pc = "extend"
           /\ pc' = "done"
           /\ i = iterations
           /\ Emitted("session_end")
      ]_vars

C17_Witness ==
    /\ pc = "done"
    /\ outcome = "ok"
    /\ iterations = 2
    /\ Len(samples["recordings"]) = Len(pre["recordings"]) + 2
    /\ Len(samples["label"]) = Len(pre["label"]) + 2

\* C18: the inlet to the stream is opened exactly once per session: at most one
\* inlet exists in any state of a call, and a call that completes its trials
\* has opened exactly one, which every trial's capture pulled from.
C18_SingleInlet ==
    /\ (pc # "idle") => inlets <= 1
    /\ (pc = "done" /\ outcome = "ok" /\ iterations >= 1) => inlets = 1

\* C19: a trial whose capture collected no sample completes without a fault
\* and appends a window of shape [C, target_length] of zeros to recordings.
C19_EmptyCaptureZeroWindow ==
    (steps # <<>> /\ steps[Len(steps)] = "normalize" /\ raw = <<>>)
    => /\ outcome # "fault"
       /\ samples["recordings"] # <<>>
       /\ LET target == TargetLength(sampling_frequency, duration)
          IN samples["recordings"][Len(samples["recordings"])]
             = Arr(<<NumChannels, target>>,
                   [c \in 1..NumChannels |-> Zeros(target)])

====
